---- MODULE Spec2Model ----
(***************************************************************************)
(* Model of proxy.py: the GradioClientManager (lazy handle, one            *)
(* re-initialize-and-retry cycle) and the Flask handlers /predict, /health *)
(* and /test that call it.  Requests are handled one at a time in Spec and *)
(* SpecErrors (one step per handler); SpecConc runs the manager's predict  *)
(* line by line in two request threads.                                    *)
(*                                                                         *)
(* Encodings.  A text is a sequence of characters over Alphabet.  A Python *)
(* value returned by the remote call is a record [type, repr] where repr   *)
(* is what str() yields for it.  An exception message is a sequence of     *)
(* words, so that substring tests become tests on words.                   *)
(***************************************************************************)
EXTENDS Integers, Sequences, FiniteSets, TLC

VARIABLES client, retry_count, request, call, response

\* The step-by-step view of manager calls running in several request threads
\* (SpecConc): where each thread is in GradioClientManager.predict, which
\* Client object self.client refers to, and how many have been created.  In
\* Spec, where a call runs to its end in one step, they stay as Init leaves
\* them.
VARIABLES threads, handle_id, created

vars == <<client, retry_count, request, call, response, threads, handle_id, created>>

----------------------------------------------------------------------------
(* Bounds of the model *)

\* stands for the 10000 of the length check
MaxTextLen == 2

\* failed initializations are cut off here (the code never cuts them off)
MaxRetryCount == 4

\* Client objects created in one run of SpecConc
MaxHandles == 3

----------------------------------------------------------------------------
(* Values *)

None == "None"
Client == "Client"

max_retries == 3

Alphabet == {" ", "a"}

RECURSIVE SeqsUpTo(_)
SeqsUpTo(n) ==
    IF n = 0 THEN {<<>>}
    ELSE LET shorter == SeqsUpTo(n - 1)
         IN shorter \cup {Append(s, ch) : s \in {t \in shorter : Len(t) = n - 1}, ch \in Alphabet}

Texts == SeqsUpTo(MaxTextLen + 1)

NoneVal == [type |-> "NoneType", repr |-> "None"]
StrVal(s) == [type |-> "str", repr |-> s]
IntVal(s) == [type |-> "int", repr |-> s]

\* what client.predict may hand back
RemoteResults == {NoneVal, StrVal(""), StrVal("topic"), IntVal("42")}

\* messages of the exceptions client.predict may raise
RemoteErrors == {<<"Read", "Timeout">>, <<"boom">>}

NotCalled == [called |-> FALSE, ok |-> FALSE, val |-> NoneVal, err |-> <<>>]
Returns(v) == [called |-> TRUE, ok |-> TRUE, val |-> v, err |-> <<>>]
Raises(m) == [called |-> TRUE, ok |-> FALSE, val |-> NoneVal, err |-> m]

RemoteOutcomes == {Returns(v) : v \in RemoteResults} \cup {Raises(m) : m \in RemoteErrors}

\* the environment's answers to one manager call: the lazy init, the first
\* remote call, the re-init and the retried remote call
Script(i1, a, i2, b) == [init1 |-> i1, r1 |-> a, init2 |-> i2, r2 |-> b]

\* the answers a manager call can consume when it starts with handle c; an
\* answer that cannot be asked for is left at FALSE / NotCalled
Scripts(c) ==
    LET fromRemote ==
            {Script(TRUE, a, FALSE, NotCalled) : a \in RemoteOutcomes}
            \cup {Script(TRUE, Raises(m), TRUE, b) : m \in RemoteErrors, b \in RemoteOutcomes}
    IN IF c = "None" THEN fromRemote \cup {Script(FALSE, NotCalled, FALSE, NotCalled)}
       ELSE fromRemote

NoExc == [raisedBy |-> "none", msg |-> <<>>]
Exc(by, m) == [raisedBy |-> by, msg |-> m]

----------------------------------------------------------------------------
(* GradioClientManager *)

\* initialize_client whose except branch does not count the failure
initialize_client_NoCount(c, rc, ok) ==
    IF ok THEN [client |-> Client, retry_count |-> 0, ret |-> TRUE]
    ELSE [client |-> c, retry_count |-> rc, ret |-> FALSE]

\* initialize_client that does not reset retry_count on success
initialize_client_NoReset(c, rc, ok) ==
    IF ok THEN [client |-> Client, retry_count |-> rc, ret |-> TRUE]
    ELSE [client |-> c, retry_count |-> rc + 1, ret |-> FALSE]

\* Client(...) succeeds (ok) or raises
initialize_client(c, rc, ok) ==
    IF ok THEN [client |-> Client, retry_count |-> 0, ret |-> TRUE]
    ELSE [client |-> c, retry_count |-> rc + 1, ret |-> FALSE]

str(v) == StrVal(v.repr)

\* str(result) if result is not None else "No result returned"
Normalize(v) == IF v # NoneVal THEN str(v) ELSE StrVal("No result returned")

\* what one call of GradioClientManager.predict did: the state it started
\* from, the answers it consumed, how often it called out, how it ended and
\* the state it left
NoCall ==
    [called |-> FALSE, client0 |-> None, rc0 |-> 0,
     init1 |-> "notcalled", r1 |-> NotCalled, init2 |-> "notcalled", r2 |-> NotCalled,
     remote_calls |-> 0, lazy_inits |-> 0, reinits |-> 0,
     raised |-> FALSE, value |-> NoneVal, exc |-> NoExc,
     client |-> None, retry_count |-> 0]

InitOutcome(ok) == IF ok THEN "ok" ELSE "fail"

\* RetryCycle with "raise e" moved out of the else branch: the retried call
\* is made and its result dropped
RetryCycle_RaiseAnyway(k, e1, o) ==
    LET reset == [k EXCEPT !.client = None]
    IN IF reset.retry_count < max_retries
       THEN LET s == initialize_client(reset.client, reset.retry_count, o.init2)
                k2 == [reset EXCEPT !.client = s.client, !.retry_count = s.retry_count,
                                    !.init2 = InitOutcome(o.init2),
                                    !.reinits = @ + 1]
                k3 == [k2 EXCEPT !.r2 = o.r2, !.remote_calls = @ + 1]
            IN IF s.ret
               THEN IF o.r2.ok
                    THEN [k3 EXCEPT !.raised = TRUE, !.exc = e1]
                    ELSE [k3 EXCEPT !.raised = TRUE, !.exc = Exc("remote2", o.r2.err)]
               ELSE [k2 EXCEPT !.raised = TRUE, !.exc = e1]
       ELSE [reset EXCEPT !.raised = TRUE, !.exc = e1]

\* RetryCycle that goes round once more when the retried call fails
RetryCycle_Again(k, e1, o) ==
    LET reset == [k EXCEPT !.client = None]
    IN IF reset.retry_count < max_retries
       THEN LET s == initialize_client(reset.client, reset.retry_count, o.init2)
                k2 == [reset EXCEPT !.client = s.client, !.retry_count = s.retry_count,
                                    !.init2 = InitOutcome(o.init2),
                                    !.reinits = @ + 1]
                k3 == [k2 EXCEPT !.r2 = o.r2, !.remote_calls = @ + 1]
            IN IF s.ret
               THEN IF o.r2.ok
                    THEN [k3 EXCEPT !.value = Normalize(o.r2.val)]
                    ELSE [k3 EXCEPT !.reinits = @ + 1, !.remote_calls = @ + 1,
                                    !.raised = TRUE, !.exc = Exc("remote2", o.r2.err)]
               ELSE [k2 EXCEPT !.raised = TRUE, !.exc = e1]
       ELSE [reset EXCEPT !.raised = TRUE, !.exc = e1]

\* RetryCycle that counts the failed remote call in retry_count
RetryCycle_CountFailure(k, e1, o) ==
    LET reset == [k EXCEPT !.client = None, !.retry_count = @ + 1]
    IN IF reset.retry_count < max_retries
       THEN LET s == initialize_client(reset.client, reset.retry_count, o.init2)
                k2 == [reset EXCEPT !.client = s.client, !.retry_count = s.retry_count,
                                    !.init2 = InitOutcome(o.init2),
                                    !.reinits = @ + 1]
                k3 == [k2 EXCEPT !.r2 = o.r2, !.remote_calls = @ + 1]
            IN IF s.ret
               THEN IF o.r2.ok
                    THEN [k3 EXCEPT !.value = Normalize(o.r2.val)]
                    ELSE [k3 EXCEPT !.raised = TRUE, !.exc = Exc("remote2", o.r2.err)]
               ELSE [k2 EXCEPT !.raised = TRUE, !.exc = e1]
       ELSE [reset EXCEPT !.raised = TRUE, !.exc = e1]

\* the except branch of predict: e1 is the exception of the first remote call
RetryCycle(k, e1, o) ==
    LET reset == [k EXCEPT !.client = None]
    IN IF reset.retry_count < max_retries
       THEN LET s == initialize_client(reset.client, reset.retry_count, o.init2)
                k2 == [reset EXCEPT !.client = s.client, !.retry_count = s.retry_count,
                                    !.init2 = InitOutcome(o.init2),
                                    !.reinits = @ + 1]
                k3 == [k2 EXCEPT !.r2 = o.r2, !.remote_calls = @ + 1]
            IN IF s.ret
               THEN IF o.r2.ok
                    THEN [k3 EXCEPT !.value = Normalize(o.r2.val)]
                    ELSE [k3 EXCEPT !.raised = TRUE, !.exc = Exc("remote2", o.r2.err)]
               ELSE [k2 EXCEPT !.raised = TRUE, !.exc = e1]
       ELSE [reset EXCEPT !.raised = TRUE, !.exc = e1]

\* predict trying initialize_client a second time when the lazy one failed
GradioClientManager_predict_InitTwice(c, rc, o) ==
    LET k0 == [NoCall EXCEPT !.called = TRUE, !.client0 = c, !.rc0 = rc,
                             !.client = c, !.retry_count = rc]
        s == initialize_client(c, rc, o.init1)
        k1 == IF c = None
              THEN [k0 EXCEPT !.client = s.client, !.retry_count = s.retry_count,
                              !.init1 = InitOutcome(o.init1),
                              !.lazy_inits = @ + 1]
              ELSE k0
        k2 == [k1 EXCEPT !.r1 = o.r1, !.remote_calls = @ + 1]
    IN IF c = None /\ ~s.ret
       THEN LET s2 == initialize_client(s.client, s.retry_count, o.init1)
            IN [k1 EXCEPT !.retry_count = s2.retry_count, !.lazy_inits = @ + 1,
                          !.raised = TRUE,
                          !.exc = Exc("predict", <<"Gradio", "client", "not", "available">>)]
       ELSE IF o.r1.ok
            THEN [k2 EXCEPT !.value = Normalize(o.r1.val)]
            ELSE RetryCycle(k2, Exc("remote1", o.r1.err), o)

GradioClientManager_predict(c, rc, o) ==
    LET k0 == [NoCall EXCEPT !.called = TRUE, !.client0 = c, !.rc0 = rc,
                             !.client = c, !.retry_count = rc]
        s == initialize_client(c, rc, o.init1)
        k1 == IF c = None
              THEN [k0 EXCEPT !.client = s.client, !.retry_count = s.retry_count,
                              !.init1 = InitOutcome(o.init1),
                              !.lazy_inits = @ + 1]
              ELSE k0
        k2 == [k1 EXCEPT !.r1 = o.r1, !.remote_calls = @ + 1]
    IN IF c = None /\ ~s.ret
       THEN [k1 EXCEPT !.raised = TRUE,
                       !.exc = Exc("predict", <<"Gradio", "client", "not", "available">>)]
       ELSE IF o.r1.ok
            THEN [k2 EXCEPT !.value = Normalize(o.r1.val)]
            ELSE RetryCycle(k2, Exc("remote1", o.r1.err), o)

----------------------------------------------------------------------------
(* Flask handlers *)

IsSpace(ch) == ch = " "

RECURSIVE lstrip(_)
lstrip(t) == IF Len(t) > 0 /\ IsSpace(Head(t)) THEN lstrip(Tail(t)) ELSE t

RECURSIVE rstrip(_)
rstrip(t) ==
    IF Len(t) > 0 /\ IsSpace(t[Len(t)]) THEN rstrip(SubSeq(t, 1, Len(t) - 1)) ELSE t

\* str.strip()
strip(t) == rstrip(lstrip(t))

\* str.lower() on the words that occur in messages
lower(w) ==
    CASE w = "Timeout" -> "timeout"
      [] w = "Connection" -> "connection"
      [] w = "Read" -> "read"
      [] w = "Gradio" -> "gradio"
      [] w = "TIMEOUT" -> "timeout"
      [] w = "HTTP" -> "http"
      [] OTHER -> w

\* kw in msg.lower()
InLower(kw, msg) == \E i \in 1..Len(msg) : lower(msg[i]) = kw

\* kw in msg
In(kw, msg) == \E i \in 1..Len(msg) : msg[i] = kw

EmptyTextError == <<"Text", "cannot", "be", "empty">>
TooLongError == <<"Text", "too", "long.", "Maximum", "10000", "characters", "allowed.">>
NoJsonError == <<"No", "JSON", "data", "provided">>
TimeoutError == <<"Request", "timeout.", "The", "model", "is", "taking", "too", "long", "to", "respond.">>
ConnectionError == <<"Connection", "error.", "Cannot", "reach", "the", "AI", "model.">>
RateLimitError == <<"Rate", "limit", "exceeded.", "Please", "try", "again", "in", "a", "moment.">>

\* the chain with the connection test put before the timeout test
user_error_ConnectionFirst(error_msg) ==
    IF InLower("connection", error_msg) THEN ConnectionError
    ELSE IF InLower("timeout", error_msg) THEN TimeoutError
    ELSE IF In("429", error_msg) THEN RateLimitError
    ELSE <<"Processing", "error:">> \o error_msg

\* the if/elif chain of predict's except branch
user_error(error_msg) ==
    IF InLower("timeout", error_msg) THEN TimeoutError
    ELSE IF InLower("connection", error_msg) THEN ConnectionError
    ELSE IF In("429", error_msg) THEN RateLimitError
    ELSE <<"Processing", "error:">> \o error_msg

NoResponse ==
    [status |-> 0, success |-> "absent", error |-> <<>>, debug_error |-> <<>>,
     input_length |-> -1, result |-> NoneVal, health |-> "absent",
     client_initialized |-> FALSE, retry_count |-> -1]

NoRequest == [endpoint |-> "none", method |-> "none", data |-> FALSE, text |-> <<>>]

PredictRequests ==
    {[endpoint |-> "/predict", method |-> "GET", data |-> FALSE, text |-> t] : t \in Texts}
    \cup {[endpoint |-> "/predict", method |-> "POST", data |-> TRUE, text |-> t] : t \in Texts}
    \cup {[endpoint |-> "/predict", method |-> "POST", data |-> FALSE, text |-> <<>>]}

\* the text the handler validates: request.args.get('text', '') for GET,
\* data.get('text', '').strip() for POST
handler_text(req) == IF req.method = "GET" THEN req.text ELSE strip(req.text)

\* the length check with >= for >
too_long_ge(text) == Len(text) >= MaxTextLen

\* len(text) > 10000
too_long(text) == Len(text) > MaxTextLen

\* a 400 answer that also drops the handle
Rejected_DropHandle(c, rc, msg) ==
    [client |-> None, retry_count |-> rc, call |-> NoCall,
     response |-> [NoResponse EXCEPT !.status = 400, !.error = msg]]

\* the 400 answers of /predict: the manager is not called
Rejected(c, rc, msg) ==
    [client |-> c, retry_count |-> rc, call |-> NoCall,
     response |-> [NoResponse EXCEPT !.status = 400, !.error = msg]]

\* the /predict handler
predict(req, c, rc, o) ==
    IF req.method # "GET" /\ ~req.data THEN Rejected(c, rc, NoJsonError)
    ELSE LET text == handler_text(req)
         IN IF Len(text) = 0 THEN Rejected(c, rc, EmptyTextError)
            ELSE IF too_long(text) THEN Rejected(c, rc, TooLongError)
            ELSE LET k == GradioClientManager_predict(c, rc, o)
                 IN [client |-> k.client, retry_count |-> k.retry_count, call |-> k,
                     response |->
                        IF k.raised
                        THEN [NoResponse EXCEPT !.status = 500, !.success = "false",
                                                !.error = user_error(k.exc.msg),
                                                !.debug_error = k.exc.msg]
                        ELSE [NoResponse EXCEPT !.status = 200, !.success = "true",
                                                !.input_length = Len(text),
                                                !.result = k.value]]

\* health reading the manager before the probe call instead of after it
health_stale(c, rc, o) ==
    LET k == GradioClientManager_predict(c, rc, o)
    IN [client |-> k.client, retry_count |-> k.retry_count, call |-> k,
        response |-> [NoResponse EXCEPT !.status = 200,
                                        !.health = IF k.raised THEN "degraded" ELSE "healthy",
                                        !.client_initialized = (c # None),
                                        !.retry_count = rc]]

\* the /health handler
health(c, rc, o) ==
    LET k == GradioClientManager_predict(c, rc, o)
    IN [client |-> k.client, retry_count |-> k.retry_count, call |-> k,
        response |-> [NoResponse EXCEPT !.status = 200,
                                        !.health = IF k.raised THEN "degraded" ELSE "healthy",
                                        !.client_initialized = (k.client # None),
                                        !.retry_count = k.retry_count]]

\* the /test handler
test_endpoint(c, rc, o) ==
    LET k == GradioClientManager_predict(c, rc, o)
    IN [client |-> k.client, retry_count |-> k.retry_count, call |-> k,
        response |->
           IF k.raised
           THEN [NoResponse EXCEPT !.status = 500, !.success = "false", !.error = k.exc.msg]
           ELSE [NoResponse EXCEPT !.status = 200, !.success = "true", !.result = k.value]]

----------------------------------------------------------------------------
(* Request threads *)

\* the threads of the server that may be inside client_manager.predict
Threads == {1, 2}

\* a thread outside predict; inside, pc is the line it is about to run, phase
\* tells which initialize_client call it is in, new is the Client it has
\* created and not yet stored, using the Client its remote call runs on and
\* tmp the retry_count it has loaded for += 1 (0 stands for none)
Idle == [pc |-> "idle", phase |-> "none", new |-> 0, using |-> 0, tmp |-> 0]

----------------------------------------------------------------------------
(* The state machine *)

\* client_manager = GradioClientManager()
Init ==
    /\ \E ok \in BOOLEAN :
          LET s == initialize_client(None, 0, ok)
          IN client = s.client /\ retry_count = s.retry_count
    /\ request = NoRequest
    /\ call = NoCall
    /\ response = NoResponse
    /\ threads = [t \in Threads |-> Idle]
    /\ handle_id = (IF client = None THEN 0 ELSE 1)
    /\ created = (IF client = None THEN 0 ELSE 1)

Handled(req, r) ==
    /\ r.retry_count <= MaxRetryCount
    /\ client' = r.client
    /\ retry_count' = r.retry_count
    /\ request' = req
    /\ call' = r.call
    /\ response' = r.response
    /\ UNCHANGED <<threads, handle_id, created>>

Predict ==
    \E req \in PredictRequests, o \in Scripts(client) :
        Handled(req, predict(req, client, retry_count, o))

Health ==
    \E o \in Scripts(client) :
        Handled([NoRequest EXCEPT !.endpoint = "/health", !.method = "GET"],
                health(client, retry_count, o))

Test ==
    \E o \in Scripts(client) :
        Handled([NoRequest EXCEPT !.endpoint = "/test", !.method = "GET"],
                test_endpoint(client, retry_count, o))

Next == Predict \/ Health \/ Test

Spec == Init /\ [][Next]_vars

\* /predict with a valid text and exception messages of every class, of
\* several classes at once and of none
ClassifiedErrors ==
    RemoteErrors
    \cup {<<"Connection", "refused">>, <<"HTTP", "429">>, <<"Connection", "timeout">>,
          <<"429", "Connection">>, <<"429", "TIMEOUT">>}

ErrorScripts(c) ==
    LET after == {Returns(StrVal("topic"))} \cup {Raises(m) : m \in ClassifiedErrors}
        fromRemote ==
            {Script(TRUE, a, FALSE, NotCalled) : a \in after}
            \cup {Script(TRUE, Raises(m), TRUE, b) : m \in ClassifiedErrors, b \in after}
    IN IF c = None THEN fromRemote \cup {Script(FALSE, NotCalled, FALSE, NotCalled)}
       ELSE fromRemote

PredictErrors ==
    \E o \in ErrorScripts(client) :
        LET req == [endpoint |-> "/predict", method |-> "GET", data |-> FALSE,
                    text |-> <<"a">>]
        IN Handled(req, predict(req, client, retry_count, o))

NextErrors == PredictErrors

SpecErrors == Init /\ [][NextErrors]_vars

----------------------------------------------------------------------------
(* Manager calls step by step, interleaved between the threads *)

Goto(t, line) == threads' = [threads EXCEPT ![t].pc = line]

\* a handler calls client_manager.predict(text)
Enter(t) ==
    /\ threads[t].pc = "idle"
    /\ Goto(t, "l39")
    /\ UNCHANGED <<request, call, response, client, retry_count, handle_id, created>>

\* if self.client is None:
CheckClient(t) ==
    /\ threads[t].pc = "l39"
    /\ threads' = [threads EXCEPT ![t].pc = IF client = None THEN "l25" ELSE "l44",
                                  ![t].phase = IF client = None THEN "lazy" ELSE "none"]
    /\ UNCHANGED <<request, call, response, client, retry_count, handle_id, created>>

\* Client(...) returns a new object or raises
CreateClient(t) ==
    /\ threads[t].pc = "l25"
    /\ \E ok \in BOOLEAN :
          IF ok
          THEN /\ created < MaxHandles
               /\ created' = created + 1
               /\ threads' = [threads EXCEPT ![t].pc = "l25store", ![t].new = created + 1]
          ELSE /\ created' = created
               /\ Goto(t, "l35")
    /\ UNCHANGED <<request, call, response, client, retry_count, handle_id>>

\* self.client = <the new object>
StoreClient(t) ==
    /\ threads[t].pc = "l25store"
    /\ client' = initialize_client(client, retry_count, TRUE).client
    /\ handle_id' = threads[t].new
    /\ threads' = [threads EXCEPT ![t].pc = "l31", ![t].new = 0]
    /\ UNCHANGED <<request, call, response, retry_count, created>>

\* self.retry_count = 0; return True
ResetRetryCount(t) ==
    /\ threads[t].pc = "l31"
    /\ retry_count' = initialize_client(client, retry_count, TRUE).retry_count
    /\ threads' = [threads EXCEPT ![t].pc = IF threads[t].phase = "lazy" THEN "l44" ELSE "l52",
                                  ![t].phase = "none"]
    /\ UNCHANGED <<request, call, response, client, handle_id, created>>

\* self.retry_count += 1, the load
LoadRetryCount(t) ==
    /\ threads[t].pc = "l35"
    /\ threads' = [threads EXCEPT ![t].pc = "l35store", ![t].tmp = retry_count]
    /\ UNCHANGED <<request, call, response, client, retry_count, handle_id, created>>

\* self.retry_count += 1, the store; return False, on which predict raises
StoreRetryCount(t) ==
    /\ threads[t].pc = "l35store"
    /\ threads[t].tmp + 1 <= MaxRetryCount
    /\ retry_count' = initialize_client(client, threads[t].tmp, FALSE).retry_count
    /\ threads' = [threads EXCEPT ![t] = Idle]
    /\ UNCHANGED <<request, call, response, client, handle_id, created>>

\* self.client.predict(...) of the try block: the call starts on the object
\* self.client refers to now, or raises AttributeError when it is None
CallRemote1(t) ==
    /\ threads[t].pc = "l44"
    /\ threads' = [threads EXCEPT ![t].pc = IF client = None THEN "l50" ELSE "l44wait",
                                  ![t].using = handle_id]
    /\ UNCHANGED <<request, call, response, client, retry_count, handle_id, created>>

\* the remote call returns (predict returns) or raises
Remote1Done(t) ==
    /\ threads[t].pc = "l44wait"
    /\ \E ok \in BOOLEAN :
          threads' = [threads EXCEPT ![t] = IF ok THEN Idle ELSE [Idle EXCEPT !.pc = "l50"]]
    /\ UNCHANGED <<request, call, response, client, retry_count, handle_id, created>>

\* self.client = None
ResetClient(t) ==
    /\ threads[t].pc = "l50"
    /\ client' = None
    /\ handle_id' = 0
    /\ Goto(t, "l51")
    /\ UNCHANGED <<request, call, response, retry_count, created>>

\* if self.retry_count < self.max_retries and self.initialize_client(): else raise e
CheckRetries(t) ==
    /\ threads[t].pc = "l51"
    /\ threads' = [threads EXCEPT ![t] = IF retry_count < max_retries
                                         THEN [Idle EXCEPT !.pc = "l25", !.phase = "retry"]
                                         ELSE Idle]
    /\ UNCHANGED <<request, call, response, client, retry_count, handle_id, created>>

\* self.client.predict(...) of the retry; an AttributeError leaves predict
CallRemote2(t) ==
    /\ threads[t].pc = "l52"
    /\ threads' = [threads EXCEPT ![t] = IF client = None THEN Idle
                                         ELSE [Idle EXCEPT !.pc = "l52wait",
                                                           !.using = handle_id]]
    /\ UNCHANGED <<request, call, response, client, retry_count, handle_id, created>>

\* the retried remote call returns or raises; predict ends either way
Remote2Done(t) ==
    /\ threads[t].pc = "l52wait"
    /\ threads' = [threads EXCEPT ![t] = Idle]
    /\ UNCHANGED <<request, call, response, client, retry_count, handle_id, created>>

NextConc ==
    \E t \in Threads :
        \/ Enter(t)
        \/ CheckClient(t)
        \/ CreateClient(t)
        \/ StoreClient(t)
        \/ ResetRetryCount(t)
        \/ LoadRetryCount(t)
        \/ StoreRetryCount(t)
        \/ CallRemote1(t)
        \/ Remote1Done(t)
        \/ ResetClient(t)
        \/ CheckRetries(t)
        \/ CallRemote2(t)
        \/ Remote2Done(t)

SpecConc == Init /\ [][NextConc]_vars

\* the Client objects in existence: the one self.client refers to, those
\* created and not yet stored, those a remote call is running on
LiveHandles ==
    ({handle_id} \cup {threads[t].new : t \in Threads}
                 \cup {threads[t].using : t \in Threads}) \ {0}

TypeOKConc ==
    /\ client \in {None, Client}
    /\ (client = None) <=> (handle_id = 0)
    /\ retry_count \in 0..MaxRetryCount
    /\ created \in 0..MaxHandles
    /\ LiveHandles \subseteq 1..created

TypeOK ==
    /\ client \in {None, Client}
    /\ retry_count \in 0..MaxRetryCount
    /\ call.called \in BOOLEAN
    /\ response.status \in {0, 200, 400, 500}

----------------------------------------------------------------------------
(* Properties *)

\* the request carries a text: the GET parameter or the POST body's field
HasText(req) == req.endpoint = "/predict" /\ (req.method = "GET" \/ req.data)

\* the result of the remote call a returning manager call returned from
LastResult(k) == IF k.r2.called THEN k.r2.val ELSE k.r1.val

\* C1: a manager call whose first remote call fails, whose re-initialize
\* succeeds and whose retried remote call succeeds returns the normalized
\* result of the retried call without raising, after exactly two remote calls
\* and one re-initialize, and leaves the handle present and retry_count 0.
C1_RetryOnce ==
    (/\ call.called
     /\ call.r1.called /\ ~call.r1.ok
     /\ call.init2 = "ok"
     /\ call.r2.called /\ call.r2.ok)
    => /\ ~call.raised
       /\ call.value = Normalize(call.r2.val)
       /\ call.remote_calls = 2
       /\ call.reinits = 1
       /\ client = Client
       /\ retry_count = 0

C1_Witness ==
    /\ call.called
    /\ call.client0 = Client
    /\ call.r1.called /\ ~call.r1.ok
    /\ call.init2 = "ok"
    /\ call.r2.called /\ call.r2.ok
    /\ ~call.raised

\* every init attempt and every remote call the manager call made has failed
AllFailed(k) ==
    /\ k.init1 # "ok"
    /\ k.init2 # "ok"
    /\ k.r1.called => ~k.r1.ok
    /\ k.r2.called => ~k.r2.ok

\* C2: a manager call makes at most two remote calls and at most one
\* re-initialize, and when everything it tried has failed it ends by raising,
\* whatever retry_count it started from.
C2_BoundedRetry ==
    call.called
    => /\ call.remote_calls <= 2
       /\ call.reinits <= 1
       /\ call.lazy_inits + call.reinits <= 2
       /\ AllFailed(call) => call.raised

C2_Witness ==
    /\ call.called
    /\ call.rc0 >= max_retries
    /\ AllFailed(call)
    /\ call.raised

\* C3: whenever a manager call ends by raising, the handle is absent.
C3_HandleDiscarded == (call.called /\ call.raised) => client = None

\* C4: when the first remote call fails and the manager call raises, the
\* exception raised is the one of the first remote call.
C4_OriginalError ==
    (call.called /\ call.r1.called /\ ~call.r1.ok /\ call.raised)
    => call.exc = Exc("remote1", call.r1.err)

\* C5: 0 <= retry_count <= max_retries in every reachable state.
C5_RetryCountBounded == 0 <= retry_count /\ retry_count <= max_retries

\* C6: a /predict request whose text is empty or only whitespace is answered
\* 400 with the empty-text error, by GET as by POST.
C6_EmptyRejected ==
    (HasText(request) /\ strip(request.text) = <<>>)
    => response.status = 400 /\ response.error = EmptyTextError

\* C7 as stated: a /predict request whose supplied text is longer than the
\* maximum is answered 400 with the length error, and a text of exactly the
\* maximum length is not rejected for length.
C7_SuppliedLength ==
    HasText(request)
    => /\ Len(request.text) > MaxTextLen
          => response.status = 400 /\ response.error = TooLongError
       /\ Len(request.text) = MaxTextLen => response.error # TooLongError

\* C7 amended: a /predict request whose text is, after trimming, longer than
\* the maximum is answered 400 with the length error, and a supplied text of
\* exactly the maximum length is not rejected for length.
C7_TrimmedLength ==
    HasText(request)
    => /\ Len(strip(request.text)) > MaxTextLen
          => response.status = 400 /\ response.error = TooLongError
       /\ Len(request.text) = MaxTextLen => response.error # TooLongError

C7_Witness ==
    /\ HasText(request)
    /\ request.method = "POST"
    /\ Len(strip(request.text)) > MaxTextLen
    /\ response.status = 400
    /\ response.error = TooLongError

\* C8: a /predict request whose trimmed text has a length in (0, maximum] is
\* answered 200 with success and input_length the trimmed length, or 500
\* with success false and the classified error.
C8_ValidOutcome ==
    (/\ HasText(request)
     /\ Len(strip(request.text)) > 0
     /\ Len(strip(request.text)) <= MaxTextLen)
    => \/ /\ response.status = 200
          /\ response.success = "true"
          /\ response.input_length = Len(strip(request.text))
       \/ /\ response.status = 500
          /\ response.success = "false"
          /\ response.error = user_error(response.debug_error)

\* C9: /health reports degraded exactly when the probe call raised and
\* healthy exactly when it returned, and reports the handle presence and the
\* retry_count the manager has after the probe call.
C9_HealthMirrorsProbe ==
    request.endpoint = "/health"
    => /\ call.called
       /\ response.health \in {"healthy", "degraded"}
       /\ response.health = "degraded" <=> call.raised
       /\ response.health = "healthy" <=> ~call.raised
       /\ response.client_initialized = (client # None)
       /\ response.retry_count = retry_count

C9_Witness ==
    /\ request.endpoint = "/health"
    /\ call.called
    /\ call.client0 = None
    /\ call.raised
    /\ response.health = "degraded"
    /\ response.client_initialized

\* C10: a returning manager call returns a string: the placeholder when the
\* remote call returned None or an empty result, else the string form of the
\* remote result.
C10_Normalized ==
    (call.called /\ ~call.raised)
    => /\ call.value.type = "str"
       /\ call.value =
             IF LastResult(call) = NoneVal \/ LastResult(call).repr = ""
             THEN StrVal("No result returned")
             ELSE str(LastResult(call))

\* C11: whenever the manager call raises inside /predict the response is 500
\* with success false, debug_error the raw message and error chosen by the
\* first rule that matches: timeout, then connection, then 429, else the
\* generic "Processing error: " followed by the raw message.
C11_Classified ==
    (request.endpoint = "/predict" /\ call.called /\ call.raised)
    => LET m == call.exc.msg
           t == InLower("timeout", m)
           c == InLower("connection", m)
           r == In("429", m)
       IN /\ response.status = 500
          /\ response.success = "false"
          /\ response.debug_error = m
          /\ t => response.error = TimeoutError
          /\ (~t /\ c) => response.error = ConnectionError
          /\ (~t /\ ~c /\ r) => response.error = RateLimitError
          /\ (~t /\ ~c /\ ~r) => response.error = <<"Processing", "error:">> \o m
          /\ Cardinality({e \in {TimeoutError, ConnectionError, RateLimitError,
                                 <<"Processing", "error:">> \o m} :
                             response.error = e}) = 1

C11_Witness ==
    /\ request.endpoint = "/predict"
    /\ call.called /\ call.raised
    /\ InLower("timeout", call.exc.msg)
    /\ InLower("connection", call.exc.msg)
    /\ response.status = 500
    /\ response.error = TimeoutError

\* C12: a manager call that starts with the handle absent makes one
\* initialize attempt; when it fails the call raises ClientUnavailable at
\* once, with no remote call and no further initialize, whatever retry_count
\* is, leaving the handle absent and retry_count one higher; when it succeeds
\* the call goes on to the remote call with retry_count 0.
C12_LazyInit ==
    (call.called /\ call.client0 = None)
    => /\ call.lazy_inits = 1
       /\ call.init1 = "fail"
          => /\ call.raised
             /\ call.exc = Exc("predict", <<"Gradio", "client", "not", "available">>)
             /\ call.remote_calls = 0
             /\ call.reinits = 0
             /\ client = None
             /\ retry_count = call.rc0 + 1
       /\ call.init1 = "ok"
          => /\ call.r1.called
             /\ call.remote_calls >= 1
             /\ retry_count = IF call.init2 = "fail" THEN 1 ELSE 0

C12_Witness ==
    /\ call.called
    /\ call.client0 = None
    /\ call.rc0 >= max_retries
    /\ call.init1 = "fail"
    /\ call.raised
    /\ call.remote_calls = 0
    /\ retry_count = call.rc0 + 1

\* C13: in every state, also with two requests inside the manager's predict
\* at once, at most one Client object exists.
C13_SingleHandle == Cardinality(LiveHandles) <= 1

\* C17: with two requests inside the manager's predict at once, a thread
\* that is about to make its remote call, the first or the retried one,
\* finds the handle present.
C17_HandlePresentAtCall ==
    \A t \in Threads : threads[t].pc \in {"l44", "l52"} => client # None

\* initialize_client called once, and twice in succession, from manager
\* state (c, rc) with the same outcome ok of Client(...)
Once(c, rc, ok) == initialize_client(c, rc, ok)
Twice(c, rc, ok) ==
    LET s == Once(c, rc, ok) IN initialize_client(s.client, s.retry_count, ok)

\* C14 as stated: from every manager state and for either outcome of the
\* handle creation, initialize twice leaves the handle presence, retry_count
\* and the returned boolean as initialize once does.
C14_Idempotent ==
    \A ok \in BOOLEAN : Twice(client, retry_count, ok) = Once(client, retry_count, ok)

\* C14 amended: initialize twice leaves the handle presence and the returned
\* boolean as initialize once does, and retry_count too when the handle
\* creation succeeds; when it fails every call adds 1 to retry_count, so that
\* two calls leave it one higher than one call.
C14_IdempotentButCount ==
    /\ \A ok \in BOOLEAN :
          LET one == Once(client, retry_count, ok)
              two == Twice(client, retry_count, ok)
          IN /\ two.client = one.client
             /\ two.ret = one.ret
             /\ two.retry_count = IF ok THEN one.retry_count ELSE one.retry_count + 1
    /\ (call.called /\ call.init1 = "fail")
       => client = call.client0 /\ retry_count = call.rc0 + 1

\* a failed initialize (construction or an earlier call) followed by the
\* failed lazy initialize of this call
C14_Witness ==
    /\ call.called
    /\ call.init1 = "fail"
    /\ call.rc0 = 1
    /\ client = None
    /\ retry_count = 2

\* retry_count after a manager call, from the initialize_client calls it made
CountAfterInits(k) ==
    LET afterLazy == IF k.init1 = "ok" THEN 0
                     ELSE IF k.init1 = "fail" THEN k.rc0 + 1 ELSE k.rc0
    IN IF k.init2 = "ok" THEN 0
       ELSE IF k.init2 = "fail" THEN afterLazy + 1 ELSE afterLazy

\* C15: a manager call that starts with the handle present and whose first
\* remote call succeeds makes no initialize, keeps the handle and leaves
\* retry_count as it was; retry_count is changed by initialize alone, to 0 on
\* success and by +1 on failure.
C15_FirstTryFrame ==
    call.called
    => /\ (call.client0 # None /\ call.r1.ok)
          => /\ call.lazy_inits = 0
             /\ call.reinits = 0
             /\ call.remote_calls = 1
             /\ client = call.client0
             /\ retry_count = call.rc0
       /\ retry_count = CountAfterInits(call)
       /\ (retry_count = 0 /\ call.rc0 # 0) => (call.init1 = "ok" \/ call.init2 = "ok")

C15_Witness ==
    /\ call.called
    /\ call.client0 # None
    /\ call.r1.ok
    /\ ~call.raised
    /\ client = call.client0
    /\ retry_count = call.rc0

\* C16: with requests handled one at a time, a present handle implies
\* retry_count = 0 between calls, so that after a failed first remote call the
\* guard retry_count < max_retries sees 0 and the re-initialize is always
\* attempted.
C16_PresentImpliesZero ==
    /\ client # None => retry_count = 0
    /\ (call.called /\ call.r1.called /\ ~call.r1.ok)
       => /\ call.reinits = 1
          /\ retry_count = IF call.init2 = "fail" THEN 1 ELSE 0

C16_Witness ==
    /\ call.called
    /\ call.rc0 >= max_retries
    /\ call.r1.called /\ ~call.r1.ok
    /\ call.reinits = 1

\* C18: a /predict request answered 400 makes no manager call and leaves the
\* handle and retry_count as they were.
C18_RejectedFrame ==
    [][response'.status = 400
       => /\ ~call'.called
          /\ client' = client
          /\ retry_count' = retry_count]_vars

C18_Witness ==
    /\ request.endpoint = "/predict"
    /\ response.status = 400
    /\ response.error = TooLongError
    /\ ~call.called
    /\ client # None

====
